---- MODULE Spec2Model ----
(***************************************************************************)
(* rumenu: a launcher front end that lists the programs on PATH, ranks     *)
(* them by how often they were picked, hands the list to bemenu, runs the  *)
(* pick through the shell and persists the updated counts.                 *)
(*                                                                         *)
(* The repository holds two variants of the same program:                  *)
(*   "line"  src/main.go           counts file of "name<TAB>count" lines   *)
(*   "json"  src/unnamed/part_000  counts file is an indented JSON object  *)
(* Strings are sequences of one-character strings; files are byte          *)
(* sequences, so that formatting and parsing are real conversions.         *)
(***************************************************************************)
EXTENDS Integers, Sequences, FiniteSets, TLC

(***************************************************************************)
(* Bounds of the model.                                                    *)
(***************************************************************************)
\* number of PATH directories
MaxDirs == 2
\* largest count the initial counts file holds
MaxCount == 2
\* capacity of the bufio.Writer, scaled down from bufio's 4096
BufSize == 6
\* store operations in one behaviour of the store specification
MaxOps == 2
\* length of the candidate list in the ranking specification
MaxCands == 3

(***************************************************************************)
(* Bytes and strings.                                                      *)
(***************************************************************************)
\* the bytes the model uses, in ascending byte value
ByteOrder ==
  << "\t", "\n", " ", "\"", "+", ",", "-",
     "0", "1", "2", "3", "4", "5", "6", "7", "8", "9", ":",
     "\\", "a", "c", "i", "l", "m", "n", "s", "t", "v", "x", "{", "}" >>

Byte(c) == CHOOSE i \in 1..Len(ByteOrder) : ByteOrder[i] = c

Digits == << "0", "1", "2", "3", "4", "5", "6", "7", "8", "9" >>

IsDigit(c) == \E i \in 1..10 : Digits[i] = c

DigitVal(c) == (CHOOSE i \in 1..10 : Digits[i] = c) - 1

\* cmp.Compare on ints
CmpInt(a, b) == IF a < b THEN -1 ELSE IF a > b THEN 1 ELSE 0

\* strings.Compare: bytewise lexicographic, a proper prefix is smaller
RECURSIVE StringsCompare(_, _)
StringsCompare(x, y) ==
  IF x = << >> /\ y = << >> THEN 0
  ELSE IF x = << >> THEN -1
  ELSE IF y = << >> THEN 1
  ELSE IF Byte(Head(x)) < Byte(Head(y)) THEN -1
  ELSE IF Byte(Head(x)) > Byte(Head(y)) THEN 1
  ELSE StringsCompare(Tail(x), Tail(y))

\* strings.Contains(name, c) for a single byte c
Contains(s, c) == \E i \in 1..Len(s) : s[i] = c

\* strings.Index in place of strings.LastIndex: the first c, not the last
FirstIndex(s, c) ==
  IF Contains(s, c)
  THEN CHOOSE i \in 1..Len(s) : s[i] = c /\ \A j \in 1..(i-1) : s[j] # c
  ELSE 0

\* strings.LastIndex(line, c), 1-based; 0 when absent (Go: -1)
LastIndex(s, c) ==
  IF Contains(s, c)
  THEN CHOOSE i \in 1..Len(s) : s[i] = c /\ \A j \in (i+1)..Len(s) : s[j] # c
  ELSE 0

\* no trimming at all
TrimNothing(s) == s

\* bytes.TrimSuffix(choiceBytes, "\n"): removes one trailing newline
TrimSuffixNL(s) ==
  IF Len(s) > 0 /\ s[Len(s)] = "\n" THEN SubSeq(s, 1, Len(s) - 1) ELSE s

RECURSIVE Concat(_)
\* slices.Concat / strings.Join without separator
Concat(ss) == IF ss = << >> THEN << >> ELSE Head(ss) \o Concat(Tail(ss))

(***************************************************************************)
(* Go maps.  A map value is [nil, m]: nil is the nil map, m the entries.   *)
(* Reading a missing key (also of the nil map) yields 0.                   *)
(***************************************************************************)
EmptyFn == [k \in {} |-> 0]

NilMap == [nil |-> TRUE, m |-> EmptyFn]

MakeMap == [nil |-> FALSE, m |-> EmptyFn]

MapGet(f, k) == IF k \in DOMAIN f.m THEN f.m[k] ELSE 0

MapSet(f, k, v) ==
  [nil |-> FALSE, m |-> [x \in (DOMAIN f.m) \cup {k} |-> IF x = k THEN v ELSE f.m[x]]]

(***************************************************************************)
(* The ranking comparator and the sort.                                    *)
(***************************************************************************)
\* a comparator with the counts the wrong way round: ascending count
compareProgsAscending(freq, x, y) ==
  IF CmpInt(MapGet(freq, x), MapGet(freq, y)) # 0
  THEN CmpInt(MapGet(freq, x), MapGet(freq, y))
  ELSE StringsCompare(x, y)

\* compareProgs / the comparator of writeFreq: descending count, then name
compareProgs(freq, x, y) ==
  IF CmpInt(MapGet(freq, y), MapGet(freq, x)) # 0
  THEN CmpInt(MapGet(freq, y), MapGet(freq, x))
  ELSE StringsCompare(x, y)

RECURSIVE InsertSorted(_, _, _)
\* one pass of insertion sort: x sinks leftwards past every greater element
InsertSorted(freq, sorted, x) ==
  IF sorted = << >> THEN << x >>
  ELSE IF compareProgs(freq, x, sorted[Len(sorted)]) < 0
       THEN InsertSorted(freq, SubSeq(sorted, 1, Len(sorted) - 1), x)
              \o << sorted[Len(sorted)] >>
       ELSE Append(sorted, x)

RECURSIVE SortFunc(_, _)
\* slices.SortFunc(s, cmp): for slices of at most 12 elements pdqsort is
\* insertion sort
SortFunc(freq, s) ==
  IF s = << >> THEN << >>
  ELSE InsertSorted(freq, SortFunc(freq, SubSeq(s, 1, Len(s) - 1)), s[Len(s)])

RECURSIVE BinarySearchFromByName(_, _, _, _, _)
\* a search whose comparator has diverged from the sort's: names only
BinarySearchFromByName(freq, s, target, i, j) ==
  IF i < j
  THEN LET h == (i + j) \div 2
       IN IF StringsCompare(s[h + 1], target) < 0
          THEN BinarySearchFromByName(freq, s, target, h + 1, j)
          ELSE BinarySearchFromByName(freq, s, target, i, h)
  ELSE i

RECURSIVE BinarySearchFrom(_, _, _, _, _)
\* the loop of slices.BinarySearchFunc: the smallest position in i..j
\* whose element is not before target
BinarySearchFrom(freq, s, target, i, j) ==
  IF i < j
  THEN LET h == (i + j) \div 2
       IN IF compareProgs(freq, s[h + 1], target) < 0
          THEN BinarySearchFrom(freq, s, target, h + 1, j)
          ELSE BinarySearchFrom(freq, s, target, i, h)
  ELSE i

\* a guard that only looks at the position: found whenever the position
\* is inside the slice
BinarySearchInRange(freq, s, target) ==
  BinarySearchFrom(freq, s, target, 0, Len(s)) < Len(s)

\* slices.BinarySearchFunc(progs, choice, compareProgs): the 'found' result
BinarySearchFunc(freq, s, target) ==
  LET i == BinarySearchFrom(freq, s, target, 0, Len(s))
  IN i < Len(s) /\ compareProgs(freq, s[i + 1], target) = 0

\* the keys of a map as some slice (map iteration order is unspecified; the
\* sort that follows makes the order irrelevant)
RECURSIVE SetToSeq(_)
SetToSeq(S) ==
  IF S = {} THEN << >> ELSE LET x == CHOOSE x \in S : TRUE IN << x >> \o SetToSeq(S \ {x})

\* the keys in the order the map happened to yield them, never sorted
UnsortedKeys(freq) == SetToSeq(DOMAIN freq.m)

\* src/main.go:88-97, part_000:71-81: the keys of freq, sorted
SortedKeys(freq) == SortFunc(freq, SetToSeq(DOMAIN freq.m))

(***************************************************************************)
(* Integers as text.                                                       *)
(***************************************************************************)
RECURSIVE FormatNat(_)
FormatNat(n) ==
  IF n < 10 THEN << Digits[n + 1] >> ELSE FormatNat(n \div 10) \o << Digits[(n % 10) + 1] >>

\* fmt "%d" / json.Marshal of an int
FormatInt(n) == IF n < 0 THEN << "-" >> \o FormatNat(-n) ELSE FormatNat(n)

RECURSIVE ParseNat(_, _)
ParseNat(s, acc) ==
  IF s = << >> THEN acc ELSE ParseNat(Tail(s), acc * 10 + DigitVal(Head(s)))

\* strconv.Atoi: optional sign, then one or more decimal digits
Atoi(s) ==
  LET body == IF Len(s) > 0 /\ s[1] \in {"+", "-"} THEN Tail(s) ELSE s
  IN IF body = << >> \/ \E i \in 1..Len(body) : ~IsDigit(body[i])
     THEN [ok |-> FALSE, val |-> 0]
     ELSE [ok |-> TRUE,
           val |-> IF s[1] = "-" THEN -ParseNat(body, 0) ELSE ParseNat(body, 0)]

(***************************************************************************)
(* Errors.  msg is the text, isExit says that an *exec.ExitError is in the *)
(* chain (errors.As finds it through %w), code is its exit code, line the  *)
(* line number of a syntax error.                                          *)
(***************************************************************************)
Err(msg) == [msg |-> msg, isExit |-> FALSE, code |-> 0, line |-> 0]

Nil == Err("nil")

ExitError(code) == [msg |-> "exit status", isExit |-> TRUE, code |-> code, line |-> 0]

\* fmt.Errorf("...: %w", err): the text changes, the chain is kept
Wrap(prefix, err) == [err EXCEPT !.msg = prefix]

\* fmt.Errorf("write counts: %s", err): the chain is dropped
WriteCountsErr == Err("write counts")

(***************************************************************************)
(* Files.  A file is [exists, readable, data]; readable is the permission  *)
(* to open it for reading.                                                 *)
(***************************************************************************)
NoFile == [exists |-> FALSE, readable |-> FALSE, data |-> << >>]

File(data) == [exists |-> TRUE, readable |-> TRUE, data |-> data]

Unreadable(data) == [exists |-> TRUE, readable |-> FALSE, data |-> data]

(***************************************************************************)
(* The line-oriented counts file of src/main.go.                           *)
(***************************************************************************)
\* fmt.Fprintf(w, "%s\t%d\n", k, freq[k])
FormatLine(k, n) == k \o << "\t" >> \o FormatInt(n) \o << "\n" >>

RECURSIVE FormatLines(_, _)
FormatLines(freq, keys) ==
  IF keys = << >> THEN << >>
  ELSE FormatLine(Head(keys), MapGet(freq, Head(keys))) \o FormatLines(freq, Tail(keys))

\* everything writeFreq of src/main.go writes for freq
SerializeLines(freq) == FormatLines(freq, SortedKeys(freq))

RECURSIVE ScanLines(_)
\* bufio.Scanner with the default split function: lines without their
\* newline, a final unterminated line included
ScanLines(data) ==
  IF data = << >> THEN << >>
  ELSE IF Contains(data, "\n")
       THEN LET i == CHOOSE i \in 1..Len(data) :
                       data[i] = "\n" /\ \A j \in 1..(i-1) : data[j] # "\n"
            IN << SubSeq(data, 1, i - 1) >> \o ScanLines(SubSeq(data, i + 1, Len(data)))
       ELSE << data >>

RECURSIVE ReadLinesAllOrNothing(_, _, _)
\* a loop that returns nil, not the lines parsed so far, with the error
ReadLinesAllOrNothing(lines, lineNum, counts) ==
  IF lineNum > Len(lines) THEN [counts |-> counts, err |-> Nil]
  ELSE LET line == lines[lineNum]
           i == LastIndex(line, "\t")
           n == Atoi(SubSeq(line, i + 1, Len(line)))
       IN IF i = 0 \/ ~n.ok
          THEN [counts |-> NilMap, err |-> [Err("invalid syntax") EXCEPT !.line = lineNum]]
          ELSE ReadLinesAllOrNothing(lines, lineNum + 1,
                                     MapSet(counts, SubSeq(line, 1, i - 1), n.val))

RECURSIVE ReadLines(_, _, _)
\* the loop of readFreq: stops at the first bad line and returns what it
\* has parsed so far with the error
ReadLines(lines, lineNum, counts) ==
  IF lineNum > Len(lines) THEN [counts |-> counts, err |-> Nil]
  ELSE LET line == lines[lineNum]
           i == LastIndex(line, "\t")
           n == Atoi(SubSeq(line, i + 1, Len(line)))
       IN IF i = 0 \/ ~n.ok
          THEN [counts |-> counts, err |-> [Err("invalid syntax") EXCEPT !.line = lineNum]]
          ELSE ReadLines(lines, lineNum + 1, MapSet(counts, SubSeq(line, 1, i - 1), n.val))

\* readFreq treating a missing file as a first run: empty table, no error
readFreqLineFirstRun(file) ==
  IF ~file.exists THEN [counts |-> MakeMap, err |-> Nil]
  ELSE IF ~file.readable THEN [counts |-> NilMap, err |-> Err("open counts")]
  ELSE ReadLines(ScanLines(file.data), 1, MakeMap)

\* readFreq of src/main.go on the counts file
readFreqLine(file) ==
  IF ~file.exists \/ ~file.readable
  THEN [counts |-> NilMap, err |-> Err("open counts")]
  ELSE ReadLines(ScanLines(file.data), 1, MakeMap)


(***************************************************************************)
(* The JSON counts file of src/unnamed/part_000.                           *)
(***************************************************************************)
\* the bytes json.Marshal writes for one byte of a string
EscapeByte(c) ==
  IF c = "\"" THEN << "\\", "\"" >>
  ELSE IF c = "\\" THEN << "\\", "\\" >>
  ELSE IF c = "\n" THEN << "\\", "n" >>
  ELSE IF c = "\t" THEN << "\\", "t" >>
  ELSE << c >>

RECURSIVE EscapeBytes(_)
EscapeBytes(s) == IF s = << >> THEN << >> ELSE EscapeByte(Head(s)) \o EscapeBytes(Tail(s))

\* json.Marshal(k) for a string k
MarshalString(k) == << "\"" >> \o EscapeBytes(k) \o << "\"" >>

RECURSIVE MarshalMembers(_, _, _)
\* the loop of sortedMap.MarshalJSON
MarshalMembers(freq, keys, i) ==
  IF i > Len(keys) THEN << >>
  ELSE (IF i > 1 THEN << "," >> ELSE << >>)
         \o MarshalString(keys[i]) \o << ":" >> \o FormatInt(MapGet(freq, keys[i]))
         \o MarshalMembers(freq, keys, i + 1)

\* sortedMap.MarshalJSON
MarshalJSON(freq) == << "{" >> \o MarshalMembers(freq, SortedKeys(freq), 1) \o << "}" >>

RECURSIVE IndentMembers(_, _, _)
IndentMembers(freq, keys, i) ==
  IF i > Len(keys) THEN << >>
  ELSE (IF i > 1 THEN << "," >> ELSE << >>)
         \o << "\n", " " >>
         \o MarshalString(keys[i]) \o << ":", " " >> \o FormatInt(MapGet(freq, keys[i]))
         \o IndentMembers(freq, keys, i + 1)

\* json.MarshalIndent(sortedMap(freq), "", " "): the output of MarshalJSON
\* with a newline and one space before each member, a space after each
\* colon and a newline before the closing brace; {} stays {}
MarshalIndent(freq) ==
  LET keys == SortedKeys(freq)
  IN IF keys = << >> THEN MarshalJSON(freq)
     ELSE << "{" >> \o IndentMembers(freq, keys, 1) \o << "\n", "}" >>

\* everything writeFreq of part_000 writes for freq
SerializeJSON(freq) == MarshalIndent(freq) \o << "\n" >>

IsSpace(c) == c \in {" ", "\n", "\t"}

RECURSIVE SkipSpace(_, _)
SkipSpace(d, i) == IF i <= Len(d) /\ IsSpace(d[i]) THEN SkipSpace(d, i + 1) ELSE i

RECURSIVE ScanString(_, _, _)
\* the string that follows an opening quote: [ok, pos, val], pos after the
\* closing quote
ScanString(d, i, acc) ==
  IF i > Len(d) THEN [ok |-> FALSE, pos |-> i, val |-> acc]
  ELSE IF d[i] = "\"" THEN [ok |-> TRUE, pos |-> i + 1, val |-> acc]
  ELSE IF d[i] = "\\"
       THEN IF i + 1 > Len(d) THEN [ok |-> FALSE, pos |-> i, val |-> acc]
            ELSE IF d[i + 1] = "n" THEN ScanString(d, i + 2, Append(acc, "\n"))
            ELSE IF d[i + 1] = "t" THEN ScanString(d, i + 2, Append(acc, "\t"))
            ELSE IF d[i + 1] \in {"\"", "\\"} THEN ScanString(d, i + 2, Append(acc, d[i + 1]))
            ELSE [ok |-> FALSE, pos |-> i, val |-> acc]
  ELSE IF d[i] \in {"\n", "\t"} THEN [ok |-> FALSE, pos |-> i, val |-> acc]
  ELSE ScanString(d, i + 1, Append(acc, d[i]))

RECURSIVE DigitsEnd(_, _)
DigitsEnd(d, i) == IF i <= Len(d) /\ IsDigit(d[i]) THEN DigitsEnd(d, i + 1) ELSE i

\* a JSON integer at i: optional minus, then 0 or a digit string without a
\* leading zero
ScanNumber(d, i) ==
  LET j == IF i <= Len(d) /\ d[i] = "-" THEN i + 1 ELSE i
      e == DigitsEnd(d, j)
  IN IF e = j \/ (d[j] = "0" /\ e > j + 1)
     THEN [ok |-> FALSE, pos |-> i, val |-> 0]
     ELSE [ok |-> TRUE, pos |-> e, val |-> Atoi(SubSeq(d, i, e - 1)).val]

RECURSIVE ScanMembers(_, _, _)
\* the members of an object from i, a member being expected at i: [ok, pos,
\* val], pos after the closing brace
ScanMembers(d, i, acc) ==
  LET bad == [ok |-> FALSE, pos |-> i, val |-> acc]
  IN IF i > Len(d) \/ d[i] # "\"" THEN bad
     ELSE LET k == ScanString(d, i + 1, << >>)
              c == SkipSpace(d, k.pos)
          IN IF ~k.ok \/ c > Len(d) \/ d[c] # ":" THEN bad
             ELSE LET n == ScanNumber(d, SkipSpace(d, c + 1))
                      e == SkipSpace(d, n.pos)
                  IN IF ~n.ok \/ e > Len(d) THEN bad
                     ELSE IF d[e] = "}"
                          THEN [ok |-> TRUE, pos |-> e + 1, val |-> MapSet(acc, k.val, n.val)]
                     ELSE IF d[e] = ","
                          THEN ScanMembers(d, SkipSpace(d, e + 1), MapSet(acc, k.val, n.val))
                     ELSE bad

\* json.Unmarshal(countsBytes, &counts) for the documents the model holds:
\* an object of string keys and integer values decodes to its entries;
\* anything else here is a syntax error, found by the validating scan
\* before anything is stored, so counts stays the empty map
Unmarshal(d) ==
  LET i == SkipSpace(d, 1)
      bad == [counts |-> MakeMap, err |-> Err("json syntax")]
  IN IF i > Len(d) \/ d[i] # "{" THEN bad
     ELSE LET j == SkipSpace(d, i + 1)
              r == IF j <= Len(d) /\ d[j] = "}"
                   THEN [ok |-> TRUE, pos |-> j + 1, val |-> MakeMap]
                   ELSE ScanMembers(d, j, MakeMap)
          IN IF r.ok /\ SkipSpace(d, r.pos) > Len(d)
             THEN [counts |-> r.val, err |-> Nil]
             ELSE bad

\* readFreq of part_000
readFreqJSON(file) ==
  IF ~file.exists \/ ~file.readable
  THEN [counts |-> NilMap, err |-> Err("read counts")]
  ELSE Unmarshal(file.data)


(***************************************************************************)
(* bufio.Writer over the temporary file.                                   *)
(***************************************************************************)
\* what a failing write leaves in the file: the first short bytes
ShortWrite(p, short) == SubSeq(p, 1, IF short < Len(p) THEN short ELSE Len(p))

\* whether Write(p) reaches the file
WritesThrough(buf, p) == Len(p) > BufSize - Len(buf)

RECURSIVE BufWrite(_, _, _, _, _)
\* bufio.Writer.Write(p) with buf buffered and data in the file; fail makes
\* the first write to the file fail after short bytes
BufWrite(buf, data, p, fail, short) ==
  IF WritesThrough(buf, p)
  THEN IF buf = << >>
       THEN IF fail
            THEN [buf |-> buf, data |-> data \o ShortWrite(p, short), ok |-> FALSE]
            ELSE BufWrite(<< >>, data \o p, << >>, fail, short)
       ELSE LET n == BufSize - Len(buf)
                full == buf \o SubSeq(p, 1, n)
            IN IF fail
               THEN [buf |-> full, data |-> data \o ShortWrite(full, short), ok |-> FALSE]
               ELSE BufWrite(<< >>, data \o full, SubSeq(p, n + 1, Len(p)), fail, short)
  ELSE [buf |-> buf \o p, data |-> data, ok |-> TRUE]

(***************************************************************************)
(* State.                                                                  *)
(***************************************************************************)
VARIABLES
  variant,        \* "line": src/main.go, "json": src/unnamed/part_000
  path,           \* the directories of PATH: [ok, files] each
  dataDirExists,  \* dataDir is a directory
  disk,           \* the files of dataDir, by name
  tempFile,       \* the name of the file os.CreateTemp made, "" before that
  freq,           \* the frequency table of run / the argument of writeFreq
  wpc,            \* position in writeFreq
  keys,           \* writeFreq: the sorted keys
  ki,             \* writeFreq: index of the next key to print
  w,              \* writeFreq: bytes buffered in the bufio.Writer
  freqJSON,       \* writeFreq of part_000: the marshalled table
  werr,           \* writeFreq: the error it returns
  failedStep,     \* the step of writeFreq that failed, "" if none
  countsBefore,   \* the counts file when writeFreq was called
  killed,         \* the process was killed
  ops,            \* store operations started so far
  last,           \* the last two completed store operations, newest first
  loadRes,        \* what the last readFreq returned
  other,          \* a second session on dataDir, while it is not the one stepping
  pc,             \* run and main: position of the main goroutine
  loadPc,         \* run: the goroutine that calls readFreq
  loadErr,        \* run: the err of that goroutine
  warned,         \* run: "Warning: ..." was printed to stderr
  freqLoaded,     \* the table as readFreq returned it
  scanPc,         \* run: the goroutine that calls rumenuPath
  readPc,         \* rumenuPath: the goroutine of each directory
  dirContents,    \* rumenuPath: the names found, by directory
  progs,          \* run: the candidates
  err,            \* run: err
  bemenuCmd,      \* the picker process: [ran, stdin]
  choice,         \* run: the selection
  shPc,           \* run: the goroutine that runs the shell
  sh,             \* the shell process: [ran, stdin]
  progErr,        \* run: progErr
  persistPc,      \* run: the goroutine that updates the counts
  writeFreqErr,   \* run: writeFreqErr
  saveCalls,      \* calls of writeFreq by run
  ret,            \* what run returned
  exitCode,       \* the exit status of the process, -1 while it runs
  errorPrinted,   \* "ERROR: ..." was printed to stderr
  countsAtStart   \* the counts file when the process started

diskVars == << dataDirExists, disk, tempFile >>

writerVars == << wpc, keys, ki, w, freqJSON, werr, failedStep, countsBefore >>

storeVars == << ops, last, loadRes, other >>

runVars == << pc, loadPc, loadErr, warned, freqLoaded, scanPc, readPc, dirContents,
              progs, err, bemenuCmd, choice, shPc, sh, progErr, persistPc,
              writeFreqErr, saveCalls, ret, exitCode, errorPrinted, countsAtStart >>

\* countsFileName, as a name in dataDir
countsFileName == "counts"

\* the names files of dataDir have in the model
FileNames == {countsFileName, "tmp", "tmp2"}

countsFile == disk[countsFileName]

(***************************************************************************)
(* Load and Save by variant.                                               *)
(***************************************************************************)
readFreq(v, file) == IF v = "line" THEN readFreqLine(file) ELSE readFreqJSON(file)

\* the complete serialization writeFreq produces
Serialize(v, f) == IF v = "line" THEN SerializeLines(f) ELSE SerializeJSON(f)

(***************************************************************************)
(* writeFreq, step by step.  wpc: "idle" (not running), "call", "create",  *)
(* "print", "flush", "write", "close", "rename", "cleanup", "ret".         *)
(***************************************************************************)
\* src/main.go:88-97: collect and sort the keys
SortKeys ==
  /\ ~killed /\ wpc = "call" /\ variant = "line"
  /\ keys' = SortedKeys(freq)
  /\ ki' = 1 /\ w' = << >> /\ werr' = Nil /\ failedStep' = ""
  /\ countsBefore' = countsFile
  /\ wpc' = "create"
  /\ UNCHANGED << variant, path, diskVars, freq, freqJSON, killed, storeVars, runVars >>

\* part_000:104-107: json.MarshalIndent; marshalling strings and ints
\* cannot fail
MarshalTable ==
  /\ ~killed /\ wpc = "call" /\ variant = "json"
  /\ freqJSON' = MarshalIndent(freq)
  /\ werr' = Nil /\ failedStep' = ""
  /\ countsBefore' = countsFile
  /\ wpc' = "create"
  /\ UNCHANGED << variant, path, diskVars, freq, keys, ki, w, killed, storeVars, runVars >>

\* a temporary file of one fixed name, the same for every process
TempNameFixed(d) == "tmp"

\* writing the counts file in place: the file opened is the counts file
TempNameInPlace(d) == countsFileName

\* the name os.CreateTemp(dataDir, "") picks: a random name that no file
\* of dataDir has, so never the name of the counts file
TempName(d) == CHOOSE n \in FileNames \ {countsFileName} : ~d[n].exists

\* os.CreateTemp(dataDir, ""): a new empty file.  On failure writeFreq
\* returns before any cleanup is registered.
CreateTemp ==
  /\ ~killed /\ wpc = "create"
  /\ \E ok \in BOOLEAN :
       /\ ok => dataDirExists
       /\ IF ok
          THEN /\ tempFile' = TempName(disk)
               /\ disk' = [disk EXCEPT ![TempName(disk)] = File(<< >>)]
               /\ wpc' = IF variant = "json" THEN "write"
                         ELSE IF keys = << >> THEN "flush" ELSE "print"
               /\ UNCHANGED << werr, failedStep >>
          ELSE /\ werr' = WriteCountsErr
               /\ failedStep' = "create"
               /\ wpc' = "ret"
               /\ UNCHANGED << disk, tempFile >>
  /\ UNCHANGED << variant, path, dataDirExists, freq, keys, ki, w,
                  freqJSON, countsBefore, killed, storeVars, runVars >>

\* src/main.go:109-113: one fmt.Fprintf(w, "%s\t%d\n", k, freq[k])
Fprintf ==
  /\ ~killed /\ wpc = "print"
  /\ \E fail \in BOOLEAN, short \in {0, 1} :
       LET p == FormatLine(keys[ki], MapGet(freq, keys[ki]))
           r == BufWrite(w, disk[tempFile].data, p, fail, short)
       IN /\ fail => WritesThrough(w, p)
          /\ ~fail => short = 0
          /\ w' = r.buf
          /\ disk' = [disk EXCEPT ![tempFile].data = r.data]
          /\ IF r.ok
             THEN /\ ki' = ki + 1
                  /\ wpc' = IF ki = Len(keys) THEN "flush" ELSE "print"
                  /\ UNCHANGED << werr, failedStep >>
             ELSE /\ werr' = WriteCountsErr
                  /\ failedStep' = "print"
                  /\ wpc' = "cleanup"
                  /\ UNCHANGED ki
  /\ UNCHANGED << variant, path, dataDirExists, tempFile, freq, keys,
                  freqJSON, countsBefore, killed, storeVars, runVars >>

\* src/main.go:114-116: w.Flush() writes what is buffered, if anything
Flush ==
  /\ ~killed /\ wpc = "flush"
  /\ \E fail \in BOOLEAN, short \in {0, 1} :
       /\ fail => w # << >>
       /\ ~fail => short = 0
       /\ IF fail
          THEN /\ disk' = [disk EXCEPT ![tempFile].data = @ \o ShortWrite(w, short)]
               /\ werr' = WriteCountsErr
               /\ failedStep' = "flush"
               /\ wpc' = "cleanup"
               /\ UNCHANGED w
          ELSE /\ disk' = [disk EXCEPT ![tempFile].data = @ \o w]
               /\ w' = << >>
               /\ wpc' = "close"
               /\ UNCHANGED << werr, failedStep >>
  /\ UNCHANGED << variant, path, dataDirExists, tempFile, freq, keys, ki,
                  freqJSON, countsBefore, killed, storeVars, runVars >>

\* part_000:112-116: tempFile.Write(append(freqJSON, '\n'))
WriteJSON ==
  /\ ~killed /\ wpc = "write"
  /\ \E fail \in BOOLEAN, short \in {0, 1} :
       LET p == freqJSON \o << "\n" >>
       IN /\ ~fail => short = 0
          /\ IF fail
             THEN /\ disk' = [disk EXCEPT ![tempFile].data = @ \o ShortWrite(p, short)]
                  /\ werr' = WriteCountsErr
                  /\ failedStep' = "write"
                  /\ wpc' = "cleanup"
             ELSE /\ disk' = [disk EXCEPT ![tempFile].data = @ \o p]
                  /\ wpc' = "close"
                  /\ UNCHANGED << werr, failedStep >>
  /\ UNCHANGED << variant, path, dataDirExists, tempFile, freq, keys, ki, w,
                  freqJSON, countsBefore, killed, storeVars, runVars >>

\* tempFile.Close()
CloseTemp ==
  /\ ~killed /\ wpc = "close"
  /\ \E ok \in BOOLEAN :
       IF ok
       THEN /\ wpc' = "rename"
            /\ UNCHANGED << werr, failedStep >>
       ELSE /\ werr' = WriteCountsErr
            /\ failedStep' = "close"
            /\ wpc' = "cleanup"
  /\ UNCHANGED << variant, path, diskVars, freq, keys, ki, w, freqJSON,
                  countsBefore, killed, storeVars, runVars >>

\* the files after rename(2) of old to new: new names old's file, old is
\* gone; renaming a file to itself changes nothing
Renamed(d, old, new) ==
  IF old = new THEN d ELSE [d EXCEPT ![new] = d[old], ![old] = NoFile]

\* os.Rename(tempFile.Name(), countsFileName): one atomic step
Rename ==
  /\ ~killed /\ wpc = "rename"
  /\ \E ok \in BOOLEAN :
       IF ok
       THEN /\ disk' = Renamed(disk, tempFile, countsFileName)
            /\ wpc' = "ret"
            /\ UNCHANGED << werr, failedStep >>
       ELSE /\ werr' = WriteCountsErr
            /\ failedStep' = "rename"
            /\ wpc' = "cleanup"
            /\ UNCHANGED disk
  /\ UNCHANGED << variant, path, dataDirExists, tempFile, freq, keys, ki, w,
                  freqJSON, countsBefore, killed, storeVars, runVars >>

\* an error path that forgets os.Remove
RemovedNothing(d, name) == d

\* the files after os.Remove(name)
Removed(d, name) == [d EXCEPT ![name] = NoFile]

\* the error path: src/main.go:102-107 (deferred: Close, then os.Remove),
\* part_000:113-114, 118, 122 (os.Remove before each error return)
Cleanup ==
  /\ ~killed /\ wpc = "cleanup"
  /\ disk' = Removed(disk, tempFile)
  /\ wpc' = "ret"
  /\ UNCHANGED << variant, path, dataDirExists, tempFile, freq, keys, ki, w,
                  freqJSON, werr, failedStep, countsBefore, killed, storeVars, runVars >>

\* the steps of writeFreq
WriteFreqStep ==
  \/ SortKeys
  \/ MarshalTable
  \/ CreateTemp
  \/ Fprintf
  \/ Flush
  \/ WriteJSON
  \/ CloseTemp
  \/ Rename
  \/ Cleanup

\* the process is killed in the middle of writeFreq
Kill ==
  /\ ~killed /\ wpc \notin {"idle", "ret"}
  /\ killed' = TRUE
  /\ UNCHANGED << variant, path, diskVars, freq, writerVars, storeVars, runVars >>

(***************************************************************************)
(* The values the environment is drawn from.                               *)
(***************************************************************************)
ls == << "l", "s" >>

vim == << "v", "i", "m" >>

cat == << "c", "a", "t" >>

\* a file name with a tab in it
tabName == << "l", "\t", "s" >>

\* a file name with a newline in it
nlName == << "l", "\n", "s" >>

\* the tables with at most two keys among names and counts among counts
TablesOver(names, counts) ==
  { [nil |-> FALSE, m |-> m] :
      m \in UNION { [K -> counts] : K \in { K \in SUBSET names : Cardinality(K) <= 2 } } }

\* the tables a counts file holds at start: ls and vim can be on PATH in
\* the run specification, cat is not
InitTables == TablesOver({ls, vim, cat}, {1, MaxCount})

\* counts files that readFreq rejects: a good file followed by a line
\* without a tab, a count that is no number; a document cut short
Malformed(v) ==
  IF v = "line"
  THEN { SerializeLines(MapSet(MakeMap, ls, 1)) \o << "x" >>,
         << "l", "s", "\t", "x", "\n" >> }
  ELSE { << "{", "\n", " ", "\"", "l", "s", "\"", ":", " ", "1" >> }

InitCountsFiles(v) ==
  {NoFile} \cup { File(Serialize(v, T)) : T \in InitTables }
           \cup { Unreadable(Serialize(v, MapSet(MakeMap, ls, 1))) }
           \cup { File(c) : c \in Malformed(v) }

\* the files of dataDir at start: no temporary file is left over
InitDisks(v, dirExists) ==
  { [n \in FileNames |-> IF n = countsFileName THEN c ELSE NoFile] :
      c \in IF dirExists THEN InitCountsFiles(v) ELSE {NoFile} }

NoOp == [op |-> "none", err |-> Nil]

WriterIdle ==
  /\ wpc = "idle" /\ keys = << >> /\ ki = 1 /\ w = << >> /\ freqJSON = << >>
  /\ werr = Nil /\ failedStep = "" /\ countsBefore = NoFile

NoProcess == [ran |-> FALSE, stdin |-> << >>, stdout |-> << >>]

\* there is no second session
NoSession ==
  [present |-> FALSE, freq |-> NilMap, tempFile |-> "", wpc |-> "idle",
   keys |-> << >>, ki |-> 1, w |-> << >>, freqJSON |-> << >>, werr |-> Nil,
   failedStep |-> "", countsBefore |-> NoFile, killed |-> FALSE, ops |-> 0,
   last |-> << NoOp, NoOp >>, loadRes |-> [counts |-> NilMap, err |-> Nil]]

\* the store client has done nothing
StoreIdle ==
  /\ ops = 0
  /\ last = << NoOp, NoOp >>
  /\ loadRes = [counts |-> NilMap, err |-> Nil]
  /\ other = NoSession

\* run has not started
RunIdle ==
  /\ pc = "idle" /\ loadPc = "idle" /\ scanPc = "idle" /\ shPc = "idle"
  /\ persistPc = "idle"
  /\ readPc = << >> /\ dirContents = << >> /\ progs = << >> /\ choice = << >>
  /\ loadErr = Nil /\ err = Nil /\ progErr = Nil /\ writeFreqErr = Nil /\ ret = Nil
  /\ warned = FALSE /\ errorPrinted = FALSE
  /\ freqLoaded = NilMap
  /\ bemenuCmd = NoProcess /\ sh = NoProcess
  /\ saveCalls = 0 /\ exitCode = -1

(***************************************************************************)
(* The frequency store on its own: a client that calls readFreq and        *)
(* writeFreq(freq) in any order on a table it holds.                       *)
(***************************************************************************)
\* the tables handed to writeFreq: names with a tab, and for part_000,
\* which does not filter them, with a newline; counts of one and two digits
StoreTables(v) ==
  TablesOver(IF v = "line" THEN {ls, tabName} ELSE {ls, tabName, nlName},
             {0, MaxCount, 10 + MaxCount})

StoreInit ==
  /\ variant \in {"line", "json"}
  /\ path = << >>
  /\ dataDirExists \in BOOLEAN
  /\ disk \in InitDisks(variant, dataDirExists)
  /\ tempFile = ""
  /\ freq \in StoreTables(variant)
  /\ WriterIdle
  /\ killed = FALSE
  /\ ops = 0
  /\ StoreIdle
  /\ RunIdle
  /\ countsAtStart = countsFile

\* the client calls writeFreq(freq)
CallSave ==
  /\ ~killed /\ wpc = "idle" /\ ops < MaxOps
  /\ wpc' = "call"
  /\ ops' = ops + 1
  /\ UNCHANGED << variant, path, diskVars, freq, keys, ki, w, freqJSON, werr,
                  failedStep, countsBefore, killed, last, loadRes, other, runVars >>

\* writeFreq returns to the client
SaveRet ==
  /\ ~killed /\ wpc = "ret"
  /\ wpc' = "idle"
  /\ last' = << [op |-> "save", err |-> werr], last[1] >>
  /\ UNCHANGED << variant, path, diskVars, freq, keys, ki, w, freqJSON, werr,
                  failedStep, countsBefore, killed, ops, loadRes, other, runVars >>

\* the client calls readFreq()
CallLoad ==
  /\ ~killed /\ wpc = "idle" /\ ops < MaxOps
  /\ loadRes' = readFreq(variant, countsFile)
  /\ last' = << [op |-> "load", err |-> loadRes'.err], last[1] >>
  /\ ops' = ops + 1
  /\ UNCHANGED << variant, path, diskVars, freq, writerVars, killed, other, runVars >>

StoreNext ==
  \/ CallSave
  \/ SaveRet
  \/ CallLoad
  \/ WriteFreqStep
  \/ Kill

vars == << variant, path, diskVars, freq, writerVars, killed, storeVars, runVars >>

SpecStore == StoreInit /\ [][StoreNext]_vars

(***************************************************************************)
(* Two sessions on one data directory.  Both run the code above; the       *)
(* variables of a session (its table, its position in writeFreq, its       *)
(* temporary file) are those of the session that steps next, the other     *)
(* session's are kept in other.  The files of dataDir are shared.          *)
(***************************************************************************)
\* the tables the two sessions save, and the table of the counts file
\* they find: different in entries, counts and length
TableA == MapSet(MapSet(MakeMap, ls, MaxCount), tabName, 10 + MaxCount)

TableB == MapSet(MakeMap, vim, 0)

TableC == MapSet(MakeMap, ls, 1)

\* the session that steps next, as a record
ThisSession ==
  [present |-> TRUE, freq |-> freq, tempFile |-> tempFile, wpc |-> wpc,
   keys |-> keys, ki |-> ki, w |-> w, freqJSON |-> freqJSON, werr |-> werr,
   failedStep |-> failedStep, countsBefore |-> countsBefore, killed |-> killed,
   ops |-> ops, last |-> last, loadRes |-> loadRes]

\* the scheduler lets the other session take the next steps
Switch ==
  /\ other.present
  /\ other' = ThisSession
  /\ freq' = other.freq /\ tempFile' = other.tempFile /\ wpc' = other.wpc
  /\ keys' = other.keys /\ ki' = other.ki /\ w' = other.w
  /\ freqJSON' = other.freqJSON /\ werr' = other.werr
  /\ failedStep' = other.failedStep /\ countsBefore' = other.countsBefore
  /\ killed' = other.killed /\ ops' = other.ops /\ last' = other.last
  /\ loadRes' = other.loadRes
  /\ UNCHANGED << variant, path, dataDirExists, disk, runVars >>

\* the first session does up to MaxOps operations on TableA, the second
\* one operation on TableB
TwoInit ==
  /\ variant \in {"line", "json"}
  /\ path = << >>
  /\ dataDirExists = TRUE
  /\ disk \in { [n \in FileNames |-> IF n = countsFileName THEN c ELSE NoFile] :
                  c \in {NoFile, File(Serialize(variant, TableC))} }
  /\ tempFile = ""
  /\ freq = TableA
  /\ WriterIdle
  /\ killed = FALSE
  /\ ops = 0
  /\ last = << NoOp, NoOp >>
  /\ loadRes = [counts |-> NilMap, err |-> Nil]
  /\ other = [NoSession EXCEPT !.present = TRUE, !.freq = TableB, !.ops = MaxOps - 1]
  /\ RunIdle
  /\ countsAtStart = countsFile

TwoNext ==
  \/ StoreNext
  \/ Switch

SpecTwo == TwoInit /\ [][TwoNext]_vars


(***************************************************************************)
(* rumenuPath.                                                             *)
(***************************************************************************)
\* what os.ReadDir can return for one directory of PATH: an error and no
\* entries, or the entries sorted by name
DirChoices ==
  { [ok |-> FALSE, files |-> << >>] }
    \cup { [ok |-> TRUE, files |-> l] :
             l \in { << >>, << ls >>, << ls, vim >>, << nlName, ls >> } }

\* strings.Split(os.Getenv("PATH"), ":") never returns an empty slice
Paths == UNION { [1..n -> DirChoices] : n \in 1..MaxDirs }

RECURSIVE FilterNames(_)
\* src/main.go:44-49: the names without a newline, in order
FilterNames(files) ==
  IF files = << >> THEN << >>
  ELSE IF ~Contains(Head(files), "\n")
       THEN << Head(files) >> \o FilterNames(Tail(files))
       ELSE FilterNames(Tail(files))

\* a reader that keeps every name, in both variants
DirNamesUnfiltered(v, files) == files

\* the names one directory contributes: part_000:43-46 keeps every name
DirNames(v, files) == IF v = "line" THEN FilterNames(files) ELSE files

\* rumenuPath up to its goroutines: one per directory of PATH
ScanStart ==
  /\ scanPc = "start"
  /\ readPc' = [i \in 1..Len(path) |-> "run"]
  /\ dirContents' = [i \in 1..Len(path) |-> << >>]
  /\ scanPc' = "wait"
  /\ UNCHANGED << variant, path, diskVars, freq, writerVars, killed, storeVars,
                  pc, loadPc, loadErr, warned, freqLoaded, progs, err, bemenuCmd,
                  choice, shPc, sh, progErr, persistPc, writeFreqErr, saveCalls,
                  ret, exitCode, errorPrinted, countsAtStart >>

\* a loop variable shared by the goroutines of every iteration (Go before
\* 1.22): each goroutine sees the value of the last iteration, n
SharedLoopVar(i, n) == n

\* the i and d a goroutine of the loop over dirs captures: the variables
\* of its own iteration
LoopVar(i, n) == i

\* the goroutine of directory i: os.ReadDir(d), its error dropped, and
\* dirContents[i] = names
ReadDir(i) ==
  /\ scanPc = "wait" /\ readPc[i] = "run"
  /\ LET k == LoopVar(i, Len(path))
     IN dirContents' = [dirContents EXCEPT ![k] = DirNames(variant, path[k].files)]
  /\ readPc' = [readPc EXCEPT ![i] = "done"]
  /\ UNCHANGED << variant, path, diskVars, freq, writerVars, killed, storeVars,
                  pc, loadPc, loadErr, warned, freqLoaded, scanPc, progs, err,
                  bemenuCmd, choice, shPc, sh, progErr, persistPc, writeFreqErr,
                  saveCalls, ret, exitCode, errorPrinted, countsAtStart >>

\* a rumenuPath that returns an empty list without an error
rumenuPathNoCheck(out) == [progs |-> out, err |-> Nil]

\* src/main.go:54-58: what rumenuPath returns for the concatenation out
rumenuPathResult(out) ==
  IF Len(out) = 0
  THEN [progs |-> << >>, err |-> Err("no files")]
  ELSE [progs |-> out, err |-> Nil]

\* wg.Wait() of rumenuPath and its return into progs, err of run
ScanJoin ==
  /\ scanPc = "wait" /\ \A i \in 1..Len(path) : readPc[i] = "done"
  /\ progs' = rumenuPathResult(Concat(dirContents)).progs
  /\ err' = rumenuPathResult(Concat(dirContents)).err
  /\ scanPc' = "done"
  /\ UNCHANGED << variant, path, diskVars, freq, writerVars, killed, storeVars,
                  pc, loadPc, loadErr, warned, freqLoaded, readPc, dirContents,
                  bemenuCmd, choice, shPc, sh, progErr, persistPc, writeFreqErr,
                  saveCalls, ret, exitCode, errorPrinted, countsAtStart >>

(***************************************************************************)
(* run and main.                                                           *)
(***************************************************************************)
\* what the picker can write to its standard output: nothing, an empty
\* line, a candidate with or without its newline, a name that may be a key
\* of the table but is on no directory of PATH, a name with a newline in it
PickerOutputs ==
  { << >>, << "\n" >>, ls \o << "\n" >>, vim, cat \o << "\n" >>, nlName \o << "\n" >> }

\* how starting or waiting for a child process fails: it exits non-zero
\* (*exec.ExitError) or it cannot be started
BemenuErrors == { ExitError(1), Err("exec") }

ShellErrors == { ExitError(2), Err("exec") }

\* strings.Join(progs, "\n") + "\n"
RECURSIVE JoinLines(_)
JoinLines(ps) ==
  IF ps = << >> THEN << "\n" >>
  ELSE IF Len(ps) = 1 THEN ps[1] \o << "\n" >>
  ELSE ps[1] \o << "\n" >> \o JoinLines(Tail(ps))

\* src/main.go:127-145: run starts the two goroutines
RunStart ==
  /\ pc = "start"
  /\ loadPc' = "run" /\ scanPc' = "start"
  /\ pc' = "wait1"
  /\ UNCHANGED << variant, path, diskVars, freq, writerVars, killed, storeVars,
                  loadErr, warned, freqLoaded, readPc, dirContents, progs, err,
                  bemenuCmd, choice, shPc, sh, progErr, persistPc, writeFreqErr,
                  saveCalls, ret, exitCode, errorPrinted, countsAtStart >>

\* src/main.go:131-137: freq, err = readFreq(), a warning on error
Load ==
  /\ loadPc = "run"
  /\ LET r == readFreq(variant, countsFile)
     IN /\ freq' = r.counts
        /\ freqLoaded' = r.counts
        /\ loadErr' = r.err
        /\ warned' = (r.err # Nil)
  /\ loadPc' = "done"
  /\ UNCHANGED << variant, path, diskVars, writerVars, killed, storeVars,
                  pc, scanPc, readPc, dirContents, progs, err, bemenuCmd, choice,
                  shPc, sh, progErr, persistPc, writeFreqErr, saveCalls, ret,
                  exitCode, errorPrinted, countsAtStart >>

\* a first join that waits for rumenuPath only, as if wg.Add(1) were
\* missing before the goroutine of readFreq
Wait1ScanOnly ==
  /\ pc = "wait1" /\ scanPc = "done"
  /\ IF err # Nil
     THEN ret' = err /\ pc' = "returned"
     ELSE pc' = "sort" /\ UNCHANGED ret
  /\ UNCHANGED << variant, path, diskVars, freq, writerVars, killed, storeVars,
                  loadPc, loadErr, warned, freqLoaded, scanPc, readPc, dirContents,
                  progs, err, bemenuCmd, choice, shPc, sh, progErr, persistPc,
                  writeFreqErr, saveCalls, exitCode, errorPrinted, countsAtStart >>

\* src/main.go:147-150: the first wg.Wait() and the check of err
Wait1 ==
  /\ pc = "wait1" /\ loadPc = "done" /\ scanPc = "done"
  /\ IF err # Nil
     THEN ret' = err /\ pc' = "returned"
     ELSE pc' = "sort" /\ UNCHANGED ret
  /\ UNCHANGED << variant, path, diskVars, freq, writerVars, killed, storeVars,
                  loadPc, loadErr, warned, freqLoaded, scanPc, readPc, dirContents,
                  progs, err, bemenuCmd, choice, shPc, sh, progErr, persistPc,
                  writeFreqErr, saveCalls, exitCode, errorPrinted, countsAtStart >>

\* src/main.go:152-158: slices.SortFunc(progs, compareProgs)
Sort ==
  /\ pc = "sort"
  /\ progs' = SortFunc(freq, progs)
  /\ pc' = "bemenu"
  /\ UNCHANGED << variant, path, diskVars, freq, writerVars, killed, storeVars,
                  loadPc, loadErr, warned, freqLoaded, scanPc, readPc, dirContents,
                  err, bemenuCmd, choice, shPc, sh, progErr, persistPc,
                  writeFreqErr, saveCalls, ret, exitCode, errorPrinted,
                  countsAtStart >>

\* src/main.go:160-189: the picker runs on the joined candidates; on an
\* error run returns it wrapped, on an empty choice run returns nil,
\* otherwise the two goroutines of the second phase start
Bemenu ==
  /\ pc = "bemenu"
  /\ \/ \E e \in BemenuErrors :
          /\ bemenuCmd' = [ran |-> TRUE, stdin |-> JoinLines(progs), stdout |-> << >>]
          /\ err' = e
          /\ ret' = Wrap("bemenu", e)
          /\ pc' = "returned"
          /\ UNCHANGED << choice, shPc, persistPc >>
     \/ \E choiceBytes \in PickerOutputs :
          /\ bemenuCmd' = [ran |-> TRUE, stdin |-> JoinLines(progs), stdout |-> choiceBytes]
          /\ choice' = TrimSuffixNL(choiceBytes)
          /\ err' = Nil
          /\ IF TrimSuffixNL(choiceBytes) = << >>
             THEN ret' = Nil /\ pc' = "returned" /\ UNCHANGED << shPc, persistPc >>
             ELSE shPc' = "run" /\ persistPc' = "mkdir" /\ pc' = "wait2"
                  /\ UNCHANGED ret
  /\ UNCHANGED << variant, path, diskVars, freq, writerVars, killed, storeVars,
                  loadPc, loadErr, warned, freqLoaded, scanPc, readPc, dirContents,
                  progs, sh, progErr, writeFreqErr, saveCalls, exitCode,
                  errorPrinted, countsAtStart >>

\* src/main.go:173-186: the shell runs with the choice and a newline on its
\* standard input; its error is kept in progErr, wrapped with %w
Shell ==
  /\ shPc = "run"
  /\ sh' = [ran |-> TRUE, stdin |-> choice \o << "\n" >>, stdout |-> << >>]
  /\ \/ progErr' = Nil
     \/ \E e \in ShellErrors : progErr' = Wrap("choice", e)
  /\ shPc' = "done"
  /\ UNCHANGED << variant, path, diskVars, freq, writerVars, killed, storeVars,
                  pc, loadPc, loadErr, warned, freqLoaded, scanPc, readPc,
                  dirContents, progs, err, bemenuCmd, choice, persistPc,
                  writeFreqErr, saveCalls, ret, exitCode, errorPrinted,
                  countsAtStart >>

\* src/main.go:192-194: os.MkdirAll(dataDir, 0755); nothing to do and no
\* error when the directory exists
MkdirAll ==
  /\ persistPc = "mkdir"
  /\ \E ok \in BOOLEAN :
       /\ dataDirExists => ok
       /\ IF ok
          THEN dataDirExists' = TRUE /\ persistPc' = "search"
               /\ UNCHANGED writeFreqErr
          ELSE writeFreqErr' = Err("mkdir") /\ persistPc' = "done"
               /\ UNCHANGED dataDirExists
  /\ UNCHANGED << variant, path, disk, tempFile, freq, writerVars, killed,
                  storeVars, pc, loadPc, loadErr, warned, freqLoaded, scanPc,
                  readPc, dirContents, progs, err, bemenuCmd, choice, shPc, sh,
                  progErr, saveCalls, ret, exitCode, errorPrinted, countsAtStart >>

\* src/main.go:196-198: the membership guard
Search ==
  /\ persistPc = "search"
  /\ persistPc' = IF BinarySearchFunc(freq, progs, choice) THEN "incr" ELSE "done"
  /\ UNCHANGED << variant, path, diskVars, freq, writerVars, killed, storeVars,
                  pc, loadPc, loadErr, warned, freqLoaded, scanPc, readPc,
                  dirContents, progs, err, bemenuCmd, choice, shPc, sh, progErr,
                  writeFreqErr, saveCalls, ret, exitCode, errorPrinted,
                  countsAtStart >>

\* an update that builds a new table holding the selection alone
IncrementedAlone(f, k) == MapSet(MakeMap, k, MapGet(f, k) + 1)

\* an increment that starts again from zero
IncrementedFromZero(f, k) == MapSet(f, k, 1)

\* freq[choice]++, on a map made first if freq is nil
Incremented(f, k) == MapSet(f, k, MapGet(f, k) + 1)

\* src/main.go:199-203: the increment and the call of writeFreq(freq)
Incr ==
  /\ persistPc = "incr"
  /\ freq' = Incremented(freq, choice)
  /\ wpc' = "call"
  /\ saveCalls' = saveCalls + 1
  /\ persistPc' = "save"
  /\ UNCHANGED << variant, path, diskVars, keys, ki, w, freqJSON, werr,
                  failedStep, countsBefore, killed, storeVars, pc, loadPc,
                  loadErr, warned, freqLoaded, scanPc, readPc, dirContents, progs,
                  err, bemenuCmd, choice, shPc, sh, progErr, writeFreqErr, ret,
                  exitCode, errorPrinted, countsAtStart >>

\* src/main.go:203: writeFreqErr = writeFreq(freq) returns
PersistRet ==
  /\ persistPc = "save" /\ wpc = "ret"
  /\ writeFreqErr' = werr
  /\ wpc' = "idle"
  /\ persistPc' = "done"
  /\ UNCHANGED << variant, path, diskVars, freq, keys, ki, w, freqJSON, werr,
                  failedStep, countsBefore, killed, storeVars, pc, loadPc,
                  loadErr, warned, freqLoaded, scanPc, readPc, dirContents, progs,
                  err, bemenuCmd, choice, shPc, sh, progErr, saveCalls, ret,
                  exitCode, errorPrinted, countsAtStart >>

\* the persistence error first
FirstErrorSwapped(pe, we) == IF we # Nil THEN we ELSE pe

\* the error run returns after the second wg.Wait()
FirstError(pe, we) == IF pe # Nil THEN pe ELSE we

\* a join that returns as soon as the shell goroutine is done
WaitedForShell(s, p) == s = "done"

\* wg.Wait() returns once both goroutines of the second phase have called
\* wg.Done()
Waited(s, p) == s = "done" /\ p = "done"

\* src/main.go:206-210: the second wg.Wait() and the result
Wait2 ==
  /\ pc = "wait2" /\ Waited(shPc, persistPc)
  /\ ret' = FirstError(progErr, writeFreqErr)
  /\ pc' = "returned"
  /\ UNCHANGED << variant, path, diskVars, freq, writerVars, killed, storeVars,
                  loadPc, loadErr, warned, freqLoaded, scanPc, readPc, dirContents,
                  progs, err, bemenuCmd, choice, shPc, sh, progErr, persistPc,
                  writeFreqErr, saveCalls, exitCode, errorPrinted, countsAtStart >>

\* the exit status the parent sees for os.Exit(code)
ExitStatus(code) == code % 256

\* src/main.go:213-223: main turns the error of run into the exit status
Main ==
  /\ pc = "returned"
  /\ IF ret.isExit
     THEN exitCode' = ExitStatus(ret.code) /\ errorPrinted' = FALSE
     ELSE IF ret # Nil
          THEN exitCode' = ExitStatus(255) /\ errorPrinted' = TRUE
          ELSE exitCode' = 0 /\ errorPrinted' = FALSE
  /\ pc' = "exited"
  /\ UNCHANGED << variant, path, diskVars, freq, writerVars, killed, storeVars,
                  loadPc, loadErr, warned, freqLoaded, scanPc, readPc, dirContents,
                  progs, err, bemenuCmd, choice, shPc, sh, progErr, persistPc,
                  writeFreqErr, saveCalls, ret, countsAtStart >>

Init ==
  /\ variant \in {"line", "json"}
  /\ path \in Paths
  /\ dataDirExists \in BOOLEAN
  /\ disk \in InitDisks(variant, dataDirExists)
  /\ tempFile = ""
  /\ freq = NilMap
  /\ WriterIdle
  /\ killed = FALSE
  /\ StoreIdle
  /\ pc = "start" /\ loadPc = "idle" /\ scanPc = "idle" /\ shPc = "idle"
  /\ persistPc = "idle"
  /\ readPc = << >> /\ dirContents = << >> /\ progs = << >> /\ choice = << >>
  /\ loadErr = Nil /\ err = Nil /\ progErr = Nil /\ writeFreqErr = Nil /\ ret = Nil
  /\ warned = FALSE /\ errorPrinted = FALSE
  /\ freqLoaded = NilMap
  /\ bemenuCmd = NoProcess /\ sh = NoProcess
  /\ saveCalls = 0 /\ exitCode = -1
  /\ countsAtStart = countsFile

Next ==
  \/ RunStart
  \/ Load
  \/ ScanStart
  \/ \E i \in 1..Len(path) : ReadDir(i)
  \/ ScanJoin
  \/ Wait1
  \/ Sort
  \/ Bemenu
  \/ Shell
  \/ MkdirAll
  \/ Search
  \/ Incr
  \/ WriteFreqStep
  \/ PersistRet
  \/ Wait2
  \/ Main

Spec == Init /\ [][Next]_vars

(***************************************************************************)
(* The variables the goroutines of run and rumenuPath share, and the       *)
(* accesses of the step each goroutine takes next.  A goroutine that is    *)
(* not started, done, or blocked in wg.Wait() accesses nothing.            *)
(***************************************************************************)
\* a read of, a write of the shared variable v (element i, 0 for a scalar)
Rd(v, i) == [var |-> << v, i >>, write |-> FALSE]

Wr(v, i) == [var |-> << v, i >>, write |-> TRUE]

\* the goroutines: the one that runs run and main, those of run's two
\* phases, and in rumenuPath one for each directory
Units ==
  { << n, 0 >> : n \in {"main", "load", "scan", "shell", "persist"} }
    \cup { << "dir", i >> : i \in 1..Len(path) }

\* run on the main goroutine: src/main.go:129-140 declare freq, progs and
\* err, 148 reads err, 158 sorts progs with freq, 161-171 read progs and
\* set err, choice and progErr, 188 declares writeFreqErr, 207-210 read
\* the two errors
MainAccesses ==
  IF pc = "start" THEN { Wr("freq", 0), Wr("progs", 0), Wr("err", 0) }
  ELSE IF pc = "wait1" /\ loadPc = "done" /\ scanPc = "done" THEN { Rd("err", 0) }
  ELSE IF pc = "sort" THEN { Rd("freq", 0), Rd("progs", 0), Wr("progs", 0) }
  ELSE IF pc = "bemenu"
       THEN { Rd("progs", 0), Wr("err", 0), Wr("choice", 0), Wr("progErr", 0),
              Wr("writeFreqErr", 0) }
  ELSE IF pc = "wait2" /\ shPc = "done" /\ persistPc = "done"
       THEN { Rd("progErr", 0), Rd("writeFreqErr", 0) }
  ELSE {}

\* src/main.go:131-137: freq, err = readFreq() with an err of its own
LoadAccesses == IF loadPc = "run" THEN { Wr("freq", 0) } ELSE {}

\* src/main.go:142-145 and rumenuPath on that goroutine: 38 makes
\* dirContents, 54 reads it after wg.Wait(), 144 sets progs and err
ScanAccesses ==
  IF scanPc = "start" THEN { Wr("dirContents", i) : i \in 1..Len(path) }
  ELSE IF scanPc = "wait" /\ \A i \in 1..Len(path) : readPc[i] = "done"
       THEN { Rd("dirContents", i) : i \in 1..Len(path) }
              \cup { Wr("progs", 0), Wr("err", 0) }
  ELSE {}

\* src/main.go:41-51: dirContents[i] = names
DirAccesses(i) ==
  IF scanPc = "wait" /\ readPc[i] = "run" THEN { Wr("dirContents", i) } ELSE {}

\* src/main.go:173-186: reads choice, sets progErr
ShellAccesses == IF shPc = "run" THEN { Rd("choice", 0), Wr("progErr", 0) } ELSE {}

\* src/main.go:190-204: 192 sets writeFreqErr, 196 reads progs, choice
\* and, in compareProgs, freq, 199-202 read and write freq, writeFreq
\* reads freq until its keys are written, 203 sets writeFreqErr
PersistAccesses ==
  IF persistPc = "mkdir" THEN { Wr("writeFreqErr", 0) }
  ELSE IF persistPc = "search" THEN { Rd("progs", 0), Rd("choice", 0), Rd("freq", 0) }
  ELSE IF persistPc = "incr" THEN { Rd("choice", 0), Rd("freq", 0), Wr("freq", 0) }
  ELSE IF persistPc = "save"
       THEN IF wpc \in {"call", "print"} THEN { Rd("freq", 0) }
            ELSE IF wpc = "ret" THEN { Wr("writeFreqErr", 0) }
            ELSE {}
  ELSE {}

\* the accesses of the next step of goroutine u
Accesses(u) ==
  IF u[1] = "main" THEN MainAccesses
  ELSE IF u[1] = "load" THEN LoadAccesses
  ELSE IF u[1] = "scan" THEN ScanAccesses
  ELSE IF u[1] = "dir" THEN DirAccesses(u[2])
  ELSE IF u[1] = "shell" THEN ShellAccesses
  ELSE PersistAccesses

(***************************************************************************)
(* The ranking on its own: run at the point where both goroutines of the   *)
(* first phase are done, for any table and any candidate list of up to     *)
(* MaxCands names, each name found in a directory of its own.              *)
(***************************************************************************)
\* the tables of the ranking specification: missing file, empty table,
\* counts that tie and counts that differ
RankTables == {NilMap} \cup TablesOver({vim, ls, cat}, {0, 2, 5})

\* candidate lists in any order, duplicates included
RankInputs == UNION { [1..n -> {vim, ls, cat}] : n \in 1..MaxCands }

RankInit ==
  /\ variant = "line"
  /\ freq \in RankTables
  /\ progs \in RankInputs
  /\ path = [i \in 1..Len(progs) |-> [ok |-> TRUE, files |-> << progs[i] >>]]
  /\ dirContents = [i \in 1..Len(progs) |-> << progs[i] >>]
  /\ readPc = [i \in 1..Len(progs) |-> "done"]
  /\ dataDirExists = TRUE
  /\ disk = [n \in FileNames |->
               IF n = countsFileName /\ ~freq.nil
               THEN File(SerializeLines(freq)) ELSE NoFile]
  /\ tempFile = ""
  /\ WriterIdle
  /\ killed = FALSE
  /\ StoreIdle
  /\ pc = "sort" /\ loadPc = "done" /\ scanPc = "done" /\ shPc = "idle"
  /\ persistPc = "idle"
  /\ choice = << >>
  /\ loadErr = (IF freq.nil THEN Err("open counts") ELSE Nil)
  /\ warned = freq.nil
  /\ err = Nil /\ progErr = Nil /\ writeFreqErr = Nil /\ ret = Nil
  /\ errorPrinted = FALSE
  /\ freqLoaded = freq
  /\ bemenuCmd = NoProcess /\ sh = NoProcess
  /\ saveCalls = 0 /\ exitCode = -1
  /\ countsAtStart = countsFile

RankNext ==
  \/ Sort
  \/ Bemenu
  \/ Shell
  \/ MkdirAll
  \/ Search
  \/ Incr

SpecRank == RankInit /\ [][RankNext]_vars

(***************************************************************************)
(* Properties of the frequency store (SpecStore).                          *)
(***************************************************************************)
\* C1: while writeFreq runs, after it returns and after a kill at any step,
\* the counts file is exactly the file that was there when writeFreq was
\* called (absent if there was none) or exactly the complete serialization
\* of the table; nothing in between is ever visible under its name.
SaveIsAtomic ==
  wpc \notin {"idle", "call"} =>
    \/ countsFile = countsBefore
    \/ countsFile = File(Serialize(variant, freq))

\* C1 witness: killed after part of a two-entry table reached the
\* temporary file, the old counts file still in place
KilledMidWrite ==
  /\ killed
  /\ wpc \in {"print", "flush", "cleanup"}
  /\ countsBefore.exists /\ countsFile = countsBefore
  /\ disk[tempFile].data # << >>
  /\ disk[tempFile].data # Serialize(variant, freq)

\* C2: when a step of writeFreq fails (creating, writing, flushing or
\* closing the temporary file, or the rename), writeFreq returns an error,
\* no temporary file is left, and the counts file is what it was.
FailedSaveLeavesNoTrace ==
  (wpc = "ret" /\ failedStep # "") =>
    /\ werr # Nil
    /\ \A n \in FileNames \ {countsFileName} : ~disk[n].exists
    /\ countsFile = countsBefore

\* C2 witness: the rename failed with a complete temporary file written
\* and an older counts file present
RenameFailed ==
  /\ wpc = "ret" /\ failedStep = "rename"
  /\ countsBefore.exists /\ countsBefore.data # Serialize(variant, freq)

\* C3: (src/main.go) a readFreq that directly follows a successful
\* writeFreq(T) returns T's keys and counts and no error.
RoundTrip ==
  (variant = "line" /\ last[1].op = "load" /\ last[2] = [op |-> "save", err |-> Nil]) =>
    /\ loadRes.err = Nil
    /\ ~loadRes.counts.nil
    /\ loadRes.counts.m = freq.m

\* C3 witness: the round trip of a table with a tab in a name and a
\* two-digit count
RoundTripTabName ==
  /\ variant = "line" /\ last[1].op = "load" /\ last[2] = [op |-> "save", err |-> Nil]
  /\ tabName \in DOMAIN freq.m /\ freq.m[tabName] > 9
  /\ Cardinality(DOMAIN freq.m) = 2

\* C3 witness of the empty table
RoundTripEmpty ==
  /\ variant = "line" /\ last[1].op = "load" /\ last[2] = [op |-> "save", err |-> Nil]
  /\ freq.m = EmptyFn

\* C9 as stated: readFreq on a missing counts file returns an empty table
\* and no error.
MissingFileLoadsWithoutError ==
  (last[1].op = "load" /\ ~countsFile.exists) =>
    /\ loadRes.err = Nil
    /\ loadRes.counts.m = EmptyFn

\* C9 amended: readFreq on a missing counts file returns the nil table
\* together with an error (the failure to open or read the file).
MissingFileLoadsNilWithError ==
  (last[1].op = "load" /\ ~countsFile.exists) =>
    /\ loadRes.err # Nil
    /\ loadRes.counts = NilMap

\* C9 witness: readFreq ran first thing on a data directory without a
\* counts file
LoadedMissingFile ==
  /\ last[1].op = "load" /\ last[2].op = "none"
  /\ dataDirExists /\ ~countsFile.exists


(***************************************************************************)
(* Properties of the ranking (SpecRank).                                   *)
(***************************************************************************)
\* the elements of a sequence
Elems(q) == { q[i] : i \in 1..Len(q) }

\* the number of times x occurs in q
Occurrences(q, x) == Cardinality({ i \in 1..Len(q) : q[i] = x })

\* every reordering of q
Reorderings(q) ==
  { [i \in 1..Len(q) |-> q[f[i]]] :
      f \in { g \in [1..Len(q) -> 1..Len(q)] : \A i, j \in 1..Len(q) : g[i] = g[j] => i = j } }

\* the list rumenuPath returned
Scanned == Concat(dirContents)

\* x is ranked before y or equal to it: greater count, or equal count and
\* the name not greater
RankedBefore(f, x, y) ==
  \/ MapGet(f, x) > MapGet(f, y)
  \/ MapGet(f, x) = MapGet(f, y) /\ StringsCompare(x, y) <= 0

\* C4: after the sort, progs holds the scanned candidates, each as often
\* as it was scanned, in descending count (0 for a name not in the table)
\* and, for equal counts, ascending name; sorting any reordering of the
\* scanned list gives the same list; {vim:5, ls:2} ranks [vim,cat,ls] as
\* [vim,ls,cat] and the empty table ranks it as [cat,ls,vim].
RankedByCountThenName ==
  pc # "sort" =>
    /\ Len(progs) = Len(Scanned)
    /\ \A x \in Elems(Scanned) \cup Elems(progs) :
         Occurrences(progs, x) = Occurrences(Scanned, x)
    /\ \A i, j \in 1..Len(progs) : i < j => RankedBefore(freqLoaded, progs[i], progs[j])
    /\ pc = "bemenu" => \A q \in Reorderings(Scanned) : SortFunc(freq, q) = progs
    /\ (Scanned = << vim, cat, ls >> /\ DOMAIN freq.m = {vim, ls}
          /\ MapGet(freq, vim) = 5 /\ MapGet(freq, ls) = 2)
         => progs = << vim, ls, cat >>
    /\ (Scanned = << vim, cat, ls >> /\ freq.m = EmptyFn)
         => progs = << cat, ls, vim >>

\* C4 witness: scenario B, sorted and about to be handed to the picker
RankedScenarioB ==
  /\ pc = "bemenu"
  /\ Scanned = << vim, cat, ls >>
  /\ DOMAIN freq.m = {vim, ls} /\ MapGet(freq, vim) = 5 /\ MapGet(freq, ls) = 2
  /\ progs = << vim, ls, cat >>

\* C4 witness: a list with a duplicate and two names of equal count
RankedDuplicates ==
  /\ pc = "bemenu"
  /\ Scanned = << vim, ls, vim >>
  /\ MapGet(freq, vim) = 2 /\ MapGet(freq, ls) = 2
  /\ progs = << ls, vim, vim >>

(***************************************************************************)
(* Properties of a run (Spec).                                             *)
(***************************************************************************)
RunEnded == pc \in {"returned", "exited"}

\* the picker ran and exited with status 0
PickerSucceeded == bemenuCmd.ran /\ err = Nil

\* the count the counts file holds for name k, [ok, val]
PersistedCount(k) ==
  LET r == readFreq(variant, countsFile)
  IN [ok |-> countsFile.exists /\ r.err = Nil /\ k \in DOMAIN r.counts.m,
      val |-> MapGet(r.counts, k)]

\* C5: when the selection is a scanned candidate and neither os.MkdirAll
\* nor writeFreq failed, then at the end of the run the counts file holds
\* for the selection its loaded count plus 1 (1 if it had no entry), and
\* the shell was run with the selection on its input.
SelectionCountedOnce ==
  (RunEnded /\ PickerSucceeded /\ choice # << >> /\ choice \in Elems(Scanned)
     /\ writeFreqErr = Nil) =>
    /\ PersistedCount(choice).ok
    /\ PersistedCount(choice).val = MapGet(freqLoaded, choice) + 1
    /\ sh.ran /\ sh.stdin = choice \o << "\n" >>

\* C5 witness: ls, loaded with a count, is selected and the run ends well
CountedKnownSelection ==
  /\ pc = "exited" /\ exitCode = 0
  /\ choice = ls /\ MapGet(freqLoaded, ls) = MaxCount
  /\ cat \in DOMAIN freqLoaded.m
  /\ PersistedCount(ls).val = MaxCount + 1

\* C5 witness: a selection without an entry, no counts file before
CountedFirstSelection ==
  /\ pc = "exited" /\ exitCode = 0
  /\ choice = vim /\ ~countsAtStart.exists
  /\ PersistedCount(vim).val = 1

\* C6: when the picker succeeds and its output is empty or a single
\* newline, run returns nil (exit status 0), no shell is started, the
\* table is as loaded, writeFreq is never called, the goroutines of the
\* second phase never start, and the files of dataDir are unchanged.
EmptySelectionDoesNothing ==
  (RunEnded /\ PickerSucceeded /\ bemenuCmd.stdout \in { << >>, << "\n" >> }) =>
    /\ ret = Nil
    /\ pc = "exited" => exitCode = 0 /\ ~errorPrinted
    /\ ~sh.ran /\ shPc = "idle" /\ persistPc = "idle"
    /\ freq = freqLoaded
    /\ saveCalls = 0 /\ wpc = "idle"
    /\ countsFile = countsAtStart
    /\ \A n \in FileNames \ {countsFileName} : ~disk[n].exists

\* C6 witness: the picker printed just a newline over a populated table
CancelledPicker ==
  /\ pc = "exited" /\ PickerSucceeded
  /\ bemenuCmd.stdout = << "\n" >>
  /\ countsAtStart.exists /\ ~freqLoaded.nil /\ DOMAIN freqLoaded.m # {}

\* C7: a non-empty selection that is no scanned candidate is run through
\* the shell, but the table stays as loaded, writeFreq is never called and
\* the counts file is unchanged, also when the selection is a key of the
\* loaded table.
UnknownSelectionNotCounted ==
  (PickerSucceeded /\ choice # << >> /\ choice \notin Elems(Scanned)) =>
    /\ freq = freqLoaded
    /\ saveCalls = 0 /\ wpc = "idle"
    /\ countsFile = countsAtStart
    /\ RunEnded => sh.ran /\ sh.stdin = choice \o << "\n" >>

\* C7 witness: cat is a key of the loaded table, on no directory of PATH
\* and selected
StaleKeySelected ==
  /\ pc = "exited"
  /\ choice = cat /\ cat \in DOMAIN freqLoaded.m
  /\ persistPc = "done" /\ writeFreqErr = Nil
  /\ Scanned # << >>

\* C8: once rumenuPath has found no candidate, the picker is never run, no
\* shell is run, writeFreq is never called and the counts file stays as
\* it was; run returns the "no files" error and the process exits with
\* status 255 after printing it, whatever readFreq returned and whichever
\* goroutine finished first.
NoCandidatesIsFatal ==
  (scanPc = "done" /\ Scanned = << >>) =>
    /\ ~bemenuCmd.ran /\ ~sh.ran
    /\ saveCalls = 0 /\ wpc = "idle"
    /\ countsFile = countsAtStart
    /\ pc \in {"wait1", "returned", "exited"}
    /\ RunEnded => ret = Err("no files")
    /\ pc = "exited" => exitCode = 255 /\ errorPrinted

\* C8 witness: every directory empty or unreadable, readFreq succeeded
NoCandidatesLoadOk ==
  /\ pc = "exited" /\ Scanned = << >> /\ Len(path) = MaxDirs
  /\ loadErr = Nil /\ DOMAIN freq.m # {}

\* C8 witness: no candidate and readFreq failed, the scan finishing first
NoCandidatesLoadFailed ==
  /\ pc = "wait1" /\ scanPc = "done" /\ loadPc = "run" /\ Scanned = << >>
  /\ ~countsFile.exists

\* C10: after a non-empty selection run returns only when the shell
\* goroutine and the persistence goroutine are both done, and it returns
\* the shell's error if there is one, whatever the persistence error,
\* otherwise the persistence error if there is one, otherwise nil.
ExecutionErrorFirst ==
  (RunEnded /\ PickerSucceeded /\ choice # << >>) =>
    /\ shPc = "done" /\ persistPc = "done" /\ wpc = "idle"
    /\ progErr # Nil => ret = progErr
    /\ (progErr = Nil /\ writeFreqErr # Nil) => ret = writeFreqErr
    /\ (progErr = Nil /\ writeFreqErr = Nil) => ret = Nil

\* C10 witness: the shell and writeFreq both failed
BothFailed ==
  /\ pc = "exited" /\ choice # << >>
  /\ progErr # Nil /\ writeFreqErr = WriteCountsErr /\ failedStep = "rename"
  /\ ret = progErr

\* C11: the exit status of the process is 0 (run returned nil), or the
\* picker's own exit status when the picker is what failed, or 255 with an
\* "ERROR:" line for every other error; a non-zero exit of the shell is
\* never reported the way a picker failure is.
ExitCodeIsPickersOr255 ==
  pc = "exited" =>
    \/ exitCode = 0 /\ ret = Nil
    \/ /\ bemenuCmd.ran /\ ~sh.ran /\ err.isExit
       /\ exitCode = ExitStatus(err.code) /\ ~errorPrinted
    \/ exitCode = 255 /\ errorPrinted

\* the list each directory of PATH contributes, in the order of PATH
PerDirectory == [i \in 1..Len(path) |-> DirNames(variant, path[i].files)]

\* C12: rumenuPath runs one reader per directory of PATH, and whatever the
\* order in which the readers run and finish, the list it returns is the
\* entries of the directories concatenated in the order of PATH, each
\* directory's entries in their order and a name once per directory that
\* holds it; an unreadable directory contributes nothing, and rumenuPath
\* fails only when the whole list is empty.
ScanConcatenatesInPathOrder ==
  /\ scanPc \in {"wait", "done"} =>
        /\ Len(readPc) = Len(path) /\ Len(dirContents) = Len(path)
        /\ \A i \in 1..Len(path) :
             /\ readPc[i] = "done" => dirContents[i] = PerDirectory[i]
             /\ ~path[i].ok => PerDirectory[i] = << >>
  /\ (scanPc = "done" /\ pc = "wait1") =>
        /\ Scanned = Concat(PerDirectory)
        /\ progs = Scanned
        /\ (err = Nil) <=> (Scanned # << >>)

\* C12 witness: ls is in both directories and is returned twice, around
\* vim
ScannedDuplicate ==
  /\ pc = "wait1" /\ scanPc = "done" /\ Len(path) > 1
  /\ path[1].files = << ls, vim >> /\ path[2].files = << ls >>
  /\ SubSeq(progs, 1, 3) = << ls, vim, ls >>

\* C12 witness: the reader of the second directory is done while the
\* reader of the first, an unreadable directory, still runs
SecondReaderFirst ==
  /\ scanPc = "wait" /\ Len(path) > 1
  /\ readPc[1] = "run" /\ readPc[2] = "done"
  /\ ~path[1].ok /\ dirContents[2] = << ls, vim >>

\* C12 witness: an unreadable directory next to a readable one, no error
UnreadableDirectorySkipped ==
  /\ pc = "wait1" /\ scanPc = "done" /\ Len(path) > 1
  /\ ~path[1].ok /\ path[2].files = << ls, vim >>
  /\ progs = << ls, vim >> /\ err = Nil

\* C13: in src/main.go no name with a newline in it is in what rumenuPath
\* returns, so what the picker reads has one line for each scanned
\* candidate and each line is a candidate's whole name.
NoNewlineInScanResult ==
  variant = "line" =>
    /\ \A i \in 1..Len(dirContents) : \A j \in 1..Len(dirContents[i]) :
         ~Contains(dirContents[i][j], "\n")
    /\ \A i \in 1..Len(progs) : ~Contains(progs[i], "\n")
    /\ (bemenuCmd.ran /\ pc = "returned") =>
         /\ Occurrences(bemenuCmd.stdin, "\n") = Len(Scanned)
         /\ ScanLines(bemenuCmd.stdin) = progs
         /\ \A x \in Elems(Scanned) \cup Elems(progs) :
              Occurrences(progs, x) = Occurrences(Scanned, x)

\* C13 witness: a directory holds a name with a newline next to ls, and
\* the picker has run on the list
NewlineNameDropped ==
  /\ variant = "line" /\ bemenuCmd.ran /\ pc = "returned"
  /\ \E i \in 1..Len(path) : path[i].files = << nlName, ls >>
  /\ ls \in Elems(progs)

\* C14: neither operation of the second phase cancels the other.  While
\* one of them is not done run waits; when run has returned both are
\* done: if the shell failed, a known selection was still incremented and
\* writeFreq called and returned (unless os.MkdirAll failed), and if the
\* update failed the shell still ran on the selection.
BothOperationsComplete ==
  /\ (shPc = "run" \/ persistPc \in {"mkdir", "search", "incr", "save"}) => pc = "wait2"
  /\ (RunEnded /\ PickerSucceeded /\ choice # << >>) =>
       /\ shPc = "done" /\ persistPc = "done" /\ wpc = "idle"
       /\ sh.ran /\ sh.stdin = choice \o << "\n" >>
       /\ (progErr # Nil /\ choice \in Elems(Scanned) /\ writeFreqErr # Err("mkdir")) =>
            /\ saveCalls = 1
            /\ MapGet(freq, choice) = MapGet(freqLoaded, choice) + 1
            /\ writeFreqErr = werr

\* C14 witness: the shell failed before the update began, and the update
\* went on to save the incremented count
ShellFailedCountSaved ==
  /\ pc = "exited" /\ progErr # Nil
  /\ choice = ls /\ saveCalls = 1 /\ writeFreqErr = Nil
  /\ PersistedCount(ls).ok /\ PersistedCount(ls).val = MapGet(freqLoaded, ls) + 1

\* C14 witness: the shell has failed while the update is still writing
ShellFailedMidSave ==
  /\ pc = "wait2" /\ shPc = "done" /\ progErr # Nil
  /\ persistPc = "save" /\ wpc = "print"

\* C14 witness: the update failed and the shell ran all the same
UpdateFailedShellRan ==
  /\ pc = "exited" /\ progErr = Nil /\ writeFreqErr # Nil /\ sh.ran

\* progs is in ranking order for the table f
RankedFor(f) == \A i, j \in 1..Len(progs) : i < j => RankedBefore(f, progs[i], progs[j])

\* C15 as stated: after a failed readFreq the run goes on with a warning
\* and as if the table were empty: every candidate ranks with count 0 and
\* the update of a known selection saves a table built from the empty one.
LoadFailureMeansEmptyTable ==
  (loadPc = "done" /\ loadErr # Nil) =>
    /\ warned
    /\ (RunEnded /\ ~bemenuCmd.ran) => ret = Err("no files")
    /\ freqLoaded.m = EmptyFn
    /\ pc \in {"bemenu", "wait2"} => RankedFor(MakeMap)
    /\ (saveCalls = 1 /\ persistPc = "done" /\ writeFreqErr = Nil) =>
         /\ readFreq(variant, countsFile).err = Nil
         /\ readFreq(variant, countsFile).counts.m = Incremented(MakeMap, choice).m

\* C15 amended: after a failed readFreq the run goes on with a warning and
\* with the table readFreq returned with the error: the nil table, every
\* count 0, when the file is missing or unreadable; the entries of the
\* lines before the offending line in src/main.go; the empty table for a
\* JSON syntax error.  The ranking uses those counts, and the update of a
\* known selection saves that table with the selection incremented.
LoadFailureKeepsReturnedTable ==
  (loadPc = "done" /\ loadErr # Nil) =>
    /\ warned
    /\ (RunEnded /\ ~bemenuCmd.ran) => ret = Err("no files")
    /\ (~countsAtStart.exists \/ ~countsAtStart.readable) => freqLoaded = NilMap
    /\ (countsAtStart.exists /\ countsAtStart.readable /\ variant = "json") =>
         freqLoaded = MakeMap
    /\ (countsAtStart.exists /\ countsAtStart.readable /\ variant = "line"
          /\ pc = "wait1") =>
         LET lines == ScanLines(countsAtStart.data)
         IN /\ loadErr.line \in 1..Len(lines)
            /\ ~freqLoaded.nil
            /\ \A n \in 1..(loadErr.line - 1) : \E k \in DOMAIN freqLoaded.m :
                 lines[n] \o << "\n" >> = FormatLine(k, freqLoaded.m[k])
            /\ \A k \in DOMAIN freqLoaded.m : \E n \in 1..(loadErr.line - 1) :
                 lines[n] \o << "\n" >> = FormatLine(k, freqLoaded.m[k])
    /\ pc \in {"bemenu", "wait2"} => RankedFor(freqLoaded)
    /\ (saveCalls = 1 /\ persistPc = "done" /\ writeFreqErr = Nil) =>
         /\ readFreq(variant, countsFile).err = Nil
         /\ readFreq(variant, countsFile).counts.m = Incremented(freqLoaded, choice).m

\* C15 witness: the second line of the counts file is bad, the first gave
\* ls its count; vim was selected and saved next to ls
MalformedLoadContinued ==
  /\ pc = "exited" /\ variant = "line" /\ loadErr.line = 2 /\ warned
  /\ MapGet(freqLoaded, ls) = 1
  /\ choice = vim /\ saveCalls = 1 /\ writeFreqErr = Nil
  /\ PersistedCount(ls).val = 1 /\ PersistedCount(vim).val = 1

\* C15 witness: no counts file, the selection saved as the only entry
MissingLoadContinued ==
  /\ pc = "exited" /\ ~countsAtStart.exists /\ warned
  /\ saveCalls = 1 /\ writeFreqErr = Nil
  /\ DOMAIN readFreq(variant, countsFile).counts.m = {choice}

\* the goroutines whose next step accesses the shared variable v
Accessors(v) == { u \in Units : \E a \in Accesses(u) : a.var = v }

\* C16: in no state of a run do two goroutines have next steps that
\* access the same shared variable with one of them writing it.  The
\* table is accessed by the goroutine of readFreq alone while run waits
\* at the first join, by the update alone while run waits at the second,
\* and by run itself only between the joins.
NoDataRace ==
  LET acc == [u \in Units |-> Accesses(u)]
      live == { u \in Units : acc[u] # {} }
      table == Accessors(<< "freq", 0 >>)
  IN /\ \A u, v \in live : u # v =>
          \A a \in acc[u], b \in acc[v] :
            a.var = b.var => (~a.write /\ ~b.write)
     /\ pc = "wait1" => table \subseteq { << "load", 0 >> }
     /\ pc = "wait2" => table \subseteq { << "persist", 0 >> }
     /\ << "main", 0 >> \in table => pc \in {"start", "sort"}

\* C16 witness: readFreq and the readers of two directories are all about
\* to write, each to a variable of its own
ThreeWritersAtOnce ==
  /\ pc = "wait1" /\ Len(path) > 1
  /\ loadPc = "run" /\ readPc = [i \in 1..Len(path) |-> "run"] /\ scanPc = "wait"
  /\ Cardinality({ u \in Units : Accesses(u) # {} }) >= 3

\* C16 witness: the shell is about to read choice while the update is
\* about to write the table
ShellBesideIncrement ==
  /\ pc = "wait2" /\ shPc = "run" /\ persistPc = "incr"

\* C17: the membership guard is exact.  For every table, every candidate
\* list (duplicates included) and every selection, the binary search
\* over the sorted list reports found exactly when the selection is one of
\* the scanned candidates; and from the sort to the search the table the
\* comparator reads is the table as loaded.
MembershipGuardExact ==
  /\ persistPc \in {"incr", "save"} => choice \in Elems(Scanned)
  /\ (persistPc = "done" /\ writeFreqErr = Nil) => choice \notin Elems(Scanned)
  /\ (pc \in {"bemenu", "wait2"} /\ persistPc \in {"idle", "mkdir", "search"}) =>
       /\ freq = freqLoaded
       /\ BinarySearchFunc(freq, progs, choice) <=> (choice \in Elems(progs))
       /\ Elems(progs) = Elems(Scanned)

\* C17 witness: found, the selection being in the list twice and tied in
\* count with another candidate
GuardFoundDuplicate ==
  /\ persistPc = "incr" /\ Occurrences(Scanned, choice) = 2
  /\ \E x \in Elems(Scanned) : x # choice /\ MapGet(freq, x) = MapGet(freq, choice)

\* C17 witness: not found, the selection being a key of the table with a
\* count that puts it in the middle of the list
GuardMissedStaleKey ==
  /\ persistPc = "done" /\ writeFreqErr = Nil
  /\ choice = cat /\ MapGet(freq, cat) = 2
  /\ \E i, j \in 1..Len(progs) : MapGet(freq, progs[i]) = 5 /\ MapGet(freq, progs[j]) = 0

\* the position of the first occurrence of pat in data, 0 if there is none
IndexOf(data, pat) ==
  LET at == { i \in 1..(Len(data) - Len(pat) + 1) : SubSeq(data, i, i + Len(pat) - 1) = pat }
  IN IF at = {} THEN 0 ELSE CHOOSE i \in at : \A j \in at : i <= j

\* the bytes that stand for the entry of key k of table f in a counts file
EntryBytes(v, f, k) ==
  IF v = "line" THEN FormatLine(k, MapGet(f, k))
  ELSE MarshalString(k) \o << ":", " " >> \o FormatInt(MapGet(f, k))

\* the last call of writeFreq succeeded and has returned
Saved == last[1] = [op |-> "save", err |-> Nil] /\ wpc = "idle"

\* C18: the bytes writeFreq(T) leaves in the counts file are a function
\* of T alone, with the entries in descending count and, for equal counts,
\* ascending name; a second writeFreq(T) right after the first leaves the
\* counts file byte for byte as the first left it.
SaveIsDeterministic ==
  Saved =>
    /\ countsFile = File(Serialize(variant, freq))
    /\ \A k \in DOMAIN freq.m : IndexOf(countsFile.data, EntryBytes(variant, freq, k)) > 0
    /\ \A k1, k2 \in DOMAIN freq.m :
         (k1 # k2 /\ RankedBefore(freq, k1, k2)) =>
           IndexOf(countsFile.data, EntryBytes(variant, freq, k1))
             < IndexOf(countsFile.data, EntryBytes(variant, freq, k2))
    /\ last[2] = [op |-> "save", err |-> Nil] => countsFile = countsBefore

\* C18 witness: two calls in a row of writeFreq on a table of two entries
\* of different counts, over a counts file that held something else
SavedTwice ==
  /\ Saved /\ last[2] = [op |-> "save", err |-> Nil]
  /\ \E k1, k2 \in DOMAIN freq.m : MapGet(freq, k1) > MapGet(freq, k2)
  /\ countsAtStart.exists /\ countsAtStart # countsFile

\* C18 witness: two entries of equal count, ordered by name
SavedTiedCounts ==
  /\ Saved
  /\ \E k1, k2 \in DOMAIN freq.m : k1 # k2 /\ MapGet(freq, k1) = MapGet(freq, k2)

\* C19: in a run whose readFreq succeeded and whose update saved, the
\* table in the counts file afterwards has the keys of the loaded table
\* and the selection, and every key but the selection has its loaded
\* count; a key that is no scanned candidate any more is kept.
UpdateKeepsOtherEntries ==
  (loadPc = "done" /\ loadErr = Nil /\ saveCalls = 1 /\ persistPc = "done"
     /\ writeFreqErr = Nil) =>
    LET r == readFreq(variant, countsFile)
    IN /\ countsFile.exists /\ r.err = Nil
       /\ DOMAIN r.counts.m = DOMAIN freqLoaded.m \cup {choice}
       /\ \A k \in DOMAIN freqLoaded.m \ {choice} : r.counts.m[k] = freqLoaded.m[k]
       /\ \A k \in DOMAIN freqLoaded.m \ Elems(Scanned) : k \in DOMAIN r.counts.m

\* C19 witness: cat is in the loaded table and on no directory of PATH;
\* another name was selected and saved, and cat kept its count
StaleEntryRetained ==
  /\ pc = "exited" /\ loadErr = Nil /\ saveCalls = 1 /\ writeFreqErr = Nil
  /\ cat \in DOMAIN freqLoaded.m /\ choice # cat /\ choice \notin DOMAIN freqLoaded.m
  /\ PersistedCount(cat).ok /\ PersistedCount(cat).val = freqLoaded.m[cat]
  /\ PersistedCount(choice).val = 1

\* writeFreq holds a temporary file it has neither renamed nor removed
HoldsTemp(p) == p \in {"print", "flush", "write", "close", "rename", "cleanup"}

\* a is the beginning of b
IsPrefix(a, b) == Len(a) <= Len(b) /\ SubSeq(b, 1, Len(a)) = a

\* C20: with two sessions on one data directory, in every interleaving of
\* their readFreq and writeFreq steps the counts file is at every moment
\* absent or the complete serialization of one table: the one of the file
\* they found or the one a session passed to writeFreq.  The sessions
\* never hold the same temporary file, and a temporary file has only
\* bytes of its own session's table.
SessionsNeverMixContent ==
  /\ \/ ~countsFile.exists
     \/ countsFile = File(Serialize(variant, TableC)) /\ countsFile = countsAtStart
     \/ countsFile = File(Serialize(variant, freq))
     \/ countsFile = File(Serialize(variant, other.freq))
  /\ (HoldsTemp(wpc) /\ HoldsTemp(other.wpc)) => tempFile # other.tempFile
  /\ HoldsTemp(wpc) =>
       /\ tempFile \in FileNames \ {countsFileName}
       /\ disk[tempFile].exists
       /\ IsPrefix(disk[tempFile].data, Serialize(variant, freq))
  /\ (last[1].op = "load" /\ loadRes.err = Nil) =>
       loadRes.counts.m \in {TableA.m, TableB.m, TableC.m}

\* C20 witness: both sessions are in the middle of writing their
\* temporary files
BothSessionsWriting ==
  /\ other.present
  /\ wpc \in {"print", "flush", "write"} /\ other.wpc \in {"print", "flush", "write", "close"}
  /\ disk[tempFile].data # << >> /\ disk[other.tempFile].data # << >>

\* C20 witness: both sessions have saved, each having begun before the
\* other renamed; the counts file is the table of one of them
LastRenameWins ==
  /\ other.present
  /\ Saved /\ other.last[1] = [op |-> "save", err |-> Nil] /\ other.wpc = "idle"
  /\ countsFile = File(Serialize(variant, freq))
  /\ countsBefore = countsAtStart /\ other.countsBefore = countsAtStart

\* C20 witness: a session loaded the table the other had just saved
LoadedOthersTable ==
  /\ other.present
  /\ last[1].op = "load" /\ loadRes.err = Nil /\ loadRes.counts.m = other.freq.m


====
